---- MODULE Spec2Model ----
(***************************************************************************)
(* Model of the log retention daemon of src/cleanup_daemon.py              *)
(* (LogCleanupDaemon): the file registry, the three eviction policies, the *)
(* state file, the cleanup worker threads, the heartbeat monitor thread    *)
(* and the start()/stop() controller running on the main thread.           *)
(*                                                                         *)
(* Three specifications share the variables and the operators:             *)
(*   Spec        the whole daemon: construction, start(), the worker and   *)
(*               heartbeat threads, stop(), on one fixed filesystem;       *)
(*   SpecBoot    construction and the first worker on every small state    *)
(*               file and filesystem;                                      *)
(*   SpecPolicy  the scan and the three policies applied, in any order, to *)
(*               every small registry entry and filesystem.                *)
(***************************************************************************)
EXTENDS Integers, Sequences, FiniteSets, TLC

(***************************************************************************)
(* Bounds of the model.                                                    *)
(***************************************************************************)
\* the clock runs from StartTime to StartTime + MaxTime
MaxTime == 2
\* number of cleanup threads that can ever be created
MaxWorkers == 2
\* modification times of files are 0..MaxMtime
MaxMtime == 2
\* sizes of files are 1..MaxSize
MaxSize == 2

StartTime == MaxMtime

(***************************************************************************)
(* Data: directories, paths, FileInfo records.                             *)
(***************************************************************************)
Directories == <<"d1", "d2">>

DirSet == {Directories[i] : i \in 1..Len(Directories)}

PathsOf(d) == IF d = "d1" THEN {"d1/a", "d1/b", "d1/c"} ELSE {"d2/x"}

AllPaths == UNION {PathsOf(d) : d \in DirSet}

DirOf(p) == CHOOSE d \in DirSet : p \in PathsOf(d)

\* str(file_path.relative_to(dir_path))
RelativeTo(p) ==
    CASE p = "d1/a" -> "a"
      [] p = "d1/b" -> "b"
      [] p = "d1/c" -> "c"
      [] OTHER -> "x"

FileInfo(p, s, m) == [path |-> p, size |-> s, mtime |-> m, relative_path |-> RelativeTo(p)]

AllFileInfo == {FileInfo(p, s, m) : p \in AllPaths, s \in 1..MaxSize, m \in 0..MaxMtime}

\* the main thread's id for thread-local values; workers are 1..MaxWorkers
Main == 0
Workers == 1..MaxWorkers
Threads == {Main} \cup Workers
NoThread == -1

(***************************************************************************)
(* Sequence helpers.                                                       *)
(***************************************************************************)
Range(s) == {s[i] : i \in 1..Len(s)}

InSeq(f, s) == \E i \in 1..Len(s) : s[i] = f

\* s[n:] of Python for n >= 0
Drop(s, n) == IF n >= Len(s) THEN <<>> ELSE SubSeq(s, n + 1, Len(s))

\* s[:n] of Python for n >= 0
Take(s, n) == IF n >= Len(s) THEN s ELSE SubSeq(s, 1, n)

RECURSIVE SumSize(_)
SumSize(s) == IF s = <<>> THEN 0 ELSE Head(s).size + SumSize(Tail(s))

\* every ordering of a finite set, as sequences
RECURSIVE Orderings(_)
Orderings(S) ==
    IF S = {} THEN {<<>>}
    ELSE UNION {{<<x>> \o t : t \in Orderings(S \ {x})} : x \in S}

\* f put into the mtime-sorted s behind every element that is not newer
InsertByMtime(s, f) ==
    LET k == Cardinality({i \in 1..Len(s) : s[i].mtime <= f.mtime})
    IN  Take(s, k) \o <<f>> \o Drop(s, k)

\* list.sort(key=lambda x: x.mtime): ascending and stable
RECURSIVE SortByMtime(_)
SortByMtime(s) ==
    IF s = <<>> THEN <<>>
    ELSE InsertByMtime(SortByMtime(SubSeq(s, 1, Len(s) - 1)), s[Len(s)])

(***************************************************************************)
(* The filesystem: disk is the set of files that exist (one FileInfo per   *)
(* path, what a stat of the file gives), locked the paths whose unlink     *)
(* raises although the file exists, dir_status what a walk of a directory  *)
(* meets.                                                                  *)
(***************************************************************************)
Exists(p, dsk) == \E f \in dsk : f.path = p

\* Path(f.path).unlink() returns normally
CanUnlink(p, dsk, lck) == Exists(p, dsk) /\ p \notin lck

\* the unlink loop of a policy: try: unlink; files_removed += 1 / except: log
RECURSIVE UnlinkEach(_, _, _, _, _)
UnlinkEach(s, dsk, lck, n, del) ==
    IF s = <<>> THEN [disk |-> dsk, removed |-> n, deleted |-> del]
    ELSE LET f  == Head(s)
             ok == CanUnlink(f.path, dsk, lck)
         IN  UnlinkEach(Tail(s),
                        IF ok THEN {g \in dsk : g.path # f.path} ELSE dsk,
                        lck,
                        IF ok THEN n + 1 ELSE n,
                        IF ok THEN del \cup {f.path} ELSE del)

(***************************************************************************)
(* The registry: a dict from directory to list of FileInfo.                *)
(***************************************************************************)
\* self.file_registry.get(directory, [])
Get(reg, d) == IF d \in DOMAIN reg THEN reg[d] ELSE <<>>

\* self.file_registry[directory] = v
Put(reg, d, v) == [k \in (DOMAIN reg) \cup {d} |-> IF k = d THEN v ELSE reg[k]]

EmptyDict == [k \in {} |-> <<>>]

(***************************************************************************)
(* The three eviction policies, as functions of the registry entry and the *)
(* filesystem.  Each gives the entry to store (assigned: whether           *)
(* file_registry[directory] is assigned at all), the filesystem after the  *)
(* unlinks, the returned files_removed, the list to_remove and the paths   *)
(* whose unlink succeeded.                                                 *)
(***************************************************************************)
NoChange(files, dsk) ==
    [entry |-> files, assigned |-> FALSE, disk |-> dsk, ret |-> 0,
     to_remove |-> <<>>, deleted |-> {}]

PolicyResult(to_keep, to_remove, dsk, lck) ==
    LET u == UnlinkEach(to_remove, dsk, lck, 0, {})
    IN  [entry |-> to_keep, assigned |-> TRUE, disk |-> u.disk, ret |-> u.removed,
         to_remove |-> to_remove, deleted |-> u.deleted]

\* the age policy with the comparison of line 212 turned round
CleanupByTimeReversed(files, cutoff_time, dsk, lck) ==
    LET to_remove == SelectSeq(files, LAMBDA f : f.mtime > cutoff_time)
        to_keep   == SelectSeq(files, LAMBDA f : ~InSeq(f, to_remove))
    IN  PolicyResult(to_keep, to_remove, dsk, lck)

\* _cleanup_by_time, lines 210-227, with cutoff_time of line 206
CleanupByTime(files, cutoff_time, dsk, lck) ==
    LET to_remove == SelectSeq(files, LAMBDA f : f.mtime < cutoff_time)
        to_keep   == SelectSeq(files, LAMBDA f : ~InSeq(f, to_remove))
    IN  PolicyResult(to_keep, to_remove, dsk, lck)

\* the count policy without the sort of line 240
CleanupByCountUnsorted(files, max_count, dsk, lck) ==
    IF Len(files) <= max_count THEN NoChange(files, dsk)
    ELSE LET need_remove == Len(files) - max_count
         IN  PolicyResult(Drop(files, need_remove), Take(files, need_remove), dsk, lck)

\* _cleanup_by_count, lines 231-260
CleanupByCount(files, max_count, dsk, lck) ==
    IF Len(files) <= max_count THEN NoChange(files, dsk)
    ELSE LET need_remove == Len(files) - max_count
             sorted      == SortByMtime(files)
         IN  PolicyResult(Drop(sorted, need_remove), Take(sorted, need_remove), dsk, lck)

\* the loop of lines 277-281 stopping one file early
RECURSIVE SizeLoopStrict(_, _, _)
SizeLoopStrict(s, current_size, max_size) ==
    IF s = <<>> \/ current_size - Head(s).size <= max_size THEN 0
    ELSE 1 + SizeLoopStrict(Tail(s), current_size - Head(s).size, max_size)

\* the loop of lines 277-281: how many files go to to_remove
RECURSIVE SizeLoop(_, _, _)
SizeLoop(s, current_size, max_size) ==
    IF s = <<>> \/ current_size <= max_size THEN 0
    ELSE 1 + SizeLoop(Tail(s), current_size - Head(s).size, max_size)

\* _cleanup_by_size, lines 264-299
CleanupBySize(files, max_size, dsk, lck) ==
    IF SumSize(files) <= max_size THEN NoChange(files, dsk)
    ELSE LET sorted == SortByMtime(files)
             n      == SizeLoop(sorted, SumSize(files), max_size)
         IN  PolicyResult(Drop(sorted, n), Take(sorted, n), dsk, lck)

\* _is_cpu_busy: a sample is a percentage, or the failure of the sampling call
CpuSamples == {[ok |-> TRUE, pct |-> 0], [ok |-> TRUE, pct |-> 100], [ok |-> FALSE, pct |-> 0]}

\* the gate with a failed sampling counted as busy
IsCpuBusyFailBusy(sample, cpu_threshold) == IF sample.ok THEN sample.pct > cpu_threshold ELSE TRUE

IsCpuBusy(sample, cpu_threshold) == IF sample.ok THEN sample.pct > cpu_threshold ELSE FALSE

NoSample == [ok |-> FALSE, pct |-> -1]

(***************************************************************************)
(* The state file.  kind is "missing", "corrupt" (not JSON) or "json";     *)
(* data maps a directory to its list of dicts.                             *)
(***************************************************************************)
ToDict(f) == [path |-> f.path, size |-> f.size, mtime |-> f.mtime,
              relative_path |-> f.relative_path]

DictKeys == {"path", "size", "mtime", "relative_path"}

\* fd['path'], fd['size'], fd['mtime'], fd['relative_path'] all succeed
WellFormed(fd) == DictKeys \subseteq DOMAIN fd

\* the load with fd['size'] and fd['mtime'] taken for each other
FromDictSwapped(fd) == [path |-> fd.path, size |-> fd.mtime, mtime |-> fd.size,
                        relative_path |-> fd.relative_path]

FromDict(fd) == [path |-> fd.path, size |-> fd.size, mtime |-> fd.mtime,
                 relative_path |-> fd.relative_path]

\* the dict built under the lock in _save_state, lines 331-342
Serialize(reg) == [d \in DOMAIN reg |-> [i \in 1..Len(reg[d]) |-> ToDict(reg[d][i])]]

NoFile == [kind |-> "missing", data |-> EmptyDict]
CorruptFile == [kind |-> "corrupt", data |-> EmptyDict]
JsonFile(data) == [kind |-> "json", data |-> data]

\* the loop of lines 149-157 over the directories in the order `order`: an
\* entry with a malformed dict raises, and the entries before it stay stored
RECURSIVE LoadEntries(_, _, _)
LoadEntries(reg, data, order) ==
    IF order = <<>> THEN reg
    ELSE LET d == Head(order)
         IN  IF \A i \in 1..Len(data[d]) : WellFormed(data[d][i])
             THEN LoadEntries(Put(reg, d, [i \in 1..Len(data[d]) |-> FromDict(data[d][i])]),
                              data, Tail(order))
             ELSE reg

(***************************************************************************)
(* State.                                                                  *)
(***************************************************************************)
VARIABLES
    config,          \* self.config (CleanupConfig), fixed once loaded
    now,             \* time.time()
    disk,            \* the files that exist
    locked,          \* paths whose unlink raises
    dir_status,      \* per directory: "ok", "missing" or "error" (the walk raises)
    state_writable,  \* whether the state file can be opened for writing
    state_file,      \* the state file's content
    file_registry,   \* self.file_registry
    running,         \* self.running
    last_heartbeat,  \* self.last_heartbeat
    state_lock,      \* the thread inside `with self.state_lock`, or NoThread
    cleanup_thread,  \* self.cleanup_thread: a worker id, or NoThread for None
    main_pc,         \* where the main thread is in __init__, start() and stop()
    sup_pc,          \* where the heartbeat thread is in _heartbeat_monitor
    sup_timeout,     \* the local `timeout` of _heartbeat_monitor
    pc,              \* where each cleanup thread is in _cleanup_loop
    frame,           \* per thread, the locals of the function it is in
    last,            \* history: the latest scan or policy call and its result
    scanned,         \* history: per directory, the records scans have produced
    origin,          \* history: who started each cleanup thread
    entered,         \* history: the cleanup threads that entered the loop body
    stop_log         \* history: the steps stop() has taken, in order

fsVars == <<disk, locked, dir_status, state_writable, state_file>>
sharedVars == <<file_registry, running, last_heartbeat, state_lock, cleanup_thread>>
threadVars == <<main_pc, sup_pc, sup_timeout, pc, frame>>
histVars == <<last, scanned, origin, entered, stop_log>>
vars == <<config, now, fsVars, sharedVars, threadVars, histVars>>

\* trail is history: the calls the running _perform_cleanup has completed
NoFrame == [dir_idx |-> 0, sleep_i |-> 0, cpu |-> NoSample, cutoff_time |-> 0,
            current_files |-> <<>>, state_data |-> EmptyDict, trail |-> <<>>]

Call(op, d) == <<op, d>>

NoCall == [op |-> "none", dir |-> "", by |-> NoThread, before |-> <<>>,
           to_remove |-> <<>>, deleted |-> {}, ret |-> 0, assigned |-> FALSE,
           cutoff_time |-> 0]

\* Thread.is_alive()
IsAlive(t) == t # NoThread /\ pc[t] \notin {"unborn", "exited", "crashed"}

\* the directory a thread's scan or policy call is about
CurDir(t) == config.directories[frame[t].dir_idx]

StopCalled == main_pc \in {"stop_join_cleanup", "stop_join_heartbeat", "stop_snap",
                           "stop_write", "stopped"}

(***************************************************************************)
(* _scan_directory, lines 167-194: the walk (outside the lock), then the   *)
(* assignment under the lock.                                              *)
(***************************************************************************)
\* lines 169-191: the lists the walk of d can build; none when it returns early
WalkResults(d) ==
    IF dir_status[d] # "ok" THEN {}
    ELSE Orderings({f \in disk : f.path \in PathsOf(d)})

\* lines 193-194
StoreScan(t, d) ==
    /\ state_lock = NoThread
    /\ file_registry' = Put(file_registry, d, frame[t].current_files)
    /\ scanned' = [scanned EXCEPT ![d] = @ \cup Range(frame[t].current_files)]
    /\ last' = [NoCall EXCEPT !.op = "scan", !.dir = d, !.by = t,
                              !.before = Get(file_registry, d), !.assigned = TRUE]

\* the effect of a policy call whose result is r
ApplyPolicy(t, op, d, cutoff_time, r) ==
    /\ file_registry' = IF r.assigned THEN Put(file_registry, d, r.entry) ELSE file_registry
    /\ disk' = r.disk
    /\ last' = [op |-> op, dir |-> d, by |-> t, before |-> Get(file_registry, d),
                to_remove |-> r.to_remove, deleted |-> r.deleted, ret |-> r.ret,
                assigned |-> r.assigned, cutoff_time |-> cutoff_time]

\* time.time() - self.config.retention_seconds, line 206
CutoffTime == now - config.retention_seconds

TimeResult(t, d) == CleanupByTime(Get(file_registry, d), frame[t].cutoff_time, disk, locked)
CountResult(d) == CleanupByCount(Get(file_registry, d), config.max_files_per_dir, disk, locked)
SizeResult(d) == CleanupBySize(Get(file_registry, d), config.max_disk_size_bytes, disk, locked)

\* _save_state, lines 344-345: the write of the dict built under the lock
WriteState(t) ==
    state_file' = IF state_writable THEN JsonFile(frame[t].state_data) ELSE state_file

(***************************************************************************)
(* The main thread: __init__ (lines 59-69, with _load_initial_state).      *)
(***************************************************************************)
\* lines 143-160
Load ==
    /\ main_pc = "load"
    /\ IF state_file.kind = "json"
       THEN \E order \in Orderings(DOMAIN state_file.data) :
                file_registry' = LoadEntries(file_registry, state_file.data, order)
       ELSE file_registry' = file_registry
    /\ main_pc' = "init_walk"
    /\ frame' = [frame EXCEPT ![Main].dir_idx = 1]
    /\ UNCHANGED <<config, now, fsVars, running, last_heartbeat, state_lock, cleanup_thread,
                   sup_pc, sup_timeout, pc, histVars>>

\* after the scan of one directory in the loop of lines 163-164
InitNextDir(f) ==
    IF f.dir_idx < Len(config.directories)
    THEN /\ main_pc' = "init_walk"
         /\ frame' = [frame EXCEPT ![Main] = [f EXCEPT !.dir_idx = @ + 1]]
    ELSE /\ main_pc' = "init_snap"
         /\ frame' = [frame EXCEPT ![Main] = [f EXCEPT !.dir_idx = 0]]

InitWalk ==
    /\ main_pc = "init_walk"
    /\ IF WalkResults(CurDir(Main)) = {}
       THEN InitNextDir(frame[Main])
       ELSE \E files \in WalkResults(CurDir(Main)) :
                /\ frame' = [frame EXCEPT ![Main].current_files = files]
                /\ main_pc' = "init_store"
    /\ UNCHANGED <<config, now, fsVars, sharedVars, sup_pc, sup_timeout, pc, histVars>>

InitStore ==
    /\ main_pc = "init_store"
    /\ StoreScan(Main, CurDir(Main))
    /\ InitNextDir([frame[Main] EXCEPT !.current_files = <<>>])
    /\ UNCHANGED <<config, now, fsVars, running, last_heartbeat, state_lock, cleanup_thread,
                   sup_pc, sup_timeout, pc, origin, entered, stop_log>>

\* _save_state called at line 165: lines 331-342
InitSnap ==
    /\ main_pc = "init_snap"
    /\ state_lock = NoThread
    /\ frame' = [frame EXCEPT ![Main].state_data = Serialize(file_registry)]
    /\ main_pc' = "init_write"
    /\ UNCHANGED <<config, now, fsVars, sharedVars, sup_pc, sup_timeout, pc, histVars>>

InitWrite ==
    /\ main_pc = "init_write"
    /\ WriteState(Main)
    /\ frame' = [frame EXCEPT ![Main].state_data = EmptyDict]
    /\ main_pc' = "constructed"
    /\ UNCHANGED <<config, now, disk, locked, dir_status, state_writable, sharedVars,
                   sup_pc, sup_timeout, pc, histVars>>

(***************************************************************************)
(* _start_cleanup_thread, lines 374-378, and start(), lines 404-410.       *)
(***************************************************************************)
HasUnborn == \E t \in Workers : pc[t] = "unborn"

NewThread == CHOOSE t \in Workers : pc[t] = "unborn" /\ \A u \in Workers : u < t => pc[u] # "unborn"

\* self.cleanup_thread = Thread(target=self._cleanup_loop); .start()
StartCleanupThread(who) ==
    /\ HasUnborn
    /\ cleanup_thread' = NewThread
    /\ pc' = [pc EXCEPT ![NewThread] = "loop"]
    /\ origin' = [origin EXCEPT ![NewThread] = who]

\* line 406
StartRunning ==
    /\ main_pc = "constructed"
    /\ running' = TRUE
    /\ main_pc' = "start_cleanup"
    /\ UNCHANGED <<config, now, fsVars, file_registry, last_heartbeat, state_lock,
                   cleanup_thread, sup_pc, sup_timeout, pc, frame, histVars>>

\* line 407
StartCleanup ==
    /\ main_pc = "start_cleanup"
    /\ StartCleanupThread("start")
    /\ main_pc' = "start_heartbeat"
    /\ UNCHANGED <<config, now, fsVars, file_registry, running, last_heartbeat, state_lock,
                   sup_pc, sup_timeout, frame, last, scanned, entered, stop_log>>

\* lines 408-409
StartHeartbeat ==
    /\ main_pc = "start_heartbeat"
    /\ sup_pc' = "check"
    /\ main_pc' = "started"
    /\ UNCHANGED <<config, now, fsVars, sharedVars, sup_timeout, pc, frame, histVars>>

(***************************************************************************)
(* A cleanup thread: _cleanup_loop (lines 390-402) and _perform_cleanup    *)
(* (lines 301-322).                                                        *)
(***************************************************************************)
\* line 392: while self.running
WorkerLoop(t) ==
    /\ pc[t] = "loop"
    /\ IF running
       THEN /\ pc' = [pc EXCEPT ![t] = "gate"]
            /\ entered' = entered \cup {t}
       ELSE /\ pc' = [pc EXCEPT ![t] = "exited"]
            /\ entered' = entered
    /\ UNCHANGED <<config, now, fsVars, sharedVars, main_pc, sup_pc, sup_timeout, frame,
                   last, scanned, origin, stop_log>>

\* lines 303-305: the CPU gate; a busy cycle returns at once
WorkerGate(t) ==
    /\ pc[t] = "gate"
    /\ \E sample \in CpuSamples :
          IF IsCpuBusy(sample, config.cpu_threshold)
          THEN /\ pc' = [pc EXCEPT ![t] = "sleep"]
               /\ frame' = [frame EXCEPT ![t].cpu = sample, ![t].sleep_i = 0,
                                         ![t].trail = <<>>]
          ELSE /\ pc' = [pc EXCEPT ![t] = "walk"]
               /\ frame' = [frame EXCEPT ![t].cpu = sample, ![t].dir_idx = 1,
                                         ![t].trail = <<>>]
    /\ UNCHANGED <<config, now, fsVars, sharedVars, main_pc, sup_pc, sup_timeout, histVars>>

\* line 309: the walk of _scan_directory
WorkerWalk(t) ==
    /\ pc[t] = "walk"
    /\ IF WalkResults(CurDir(t)) = {}
       THEN /\ pc' = [pc EXCEPT ![t] = "time"]
            /\ frame' = [frame EXCEPT ![t].cpu = NoSample,
                                      ![t].trail = Append(@, Call("scan", CurDir(t)))]
       ELSE \E files \in WalkResults(CurDir(t)) :
                /\ frame' = [frame EXCEPT ![t].current_files = files, ![t].cpu = NoSample]
                /\ pc' = [pc EXCEPT ![t] = "store"]
    /\ UNCHANGED <<config, now, fsVars, sharedVars, main_pc, sup_pc, sup_timeout, histVars>>

\* line 309: the assignment of _scan_directory
WorkerStore(t) ==
    /\ pc[t] = "store"
    /\ StoreScan(t, CurDir(t))
    /\ frame' = [frame EXCEPT ![t].current_files = <<>>,
                              ![t].trail = Append(@, Call("scan", CurDir(t)))]
    /\ pc' = [pc EXCEPT ![t] = "time"]
    /\ UNCHANGED <<config, now, fsVars, running, last_heartbeat, state_lock, cleanup_thread,
                   main_pc, sup_pc, sup_timeout, origin, entered, stop_log>>

\* line 310, _cleanup_by_time up to line 210: the cutoff, then the lock
WorkerTime(t) ==
    /\ pc[t] = "time"
    /\ state_lock = NoThread
    /\ state_lock' = t
    /\ frame' = [frame EXCEPT ![t].cutoff_time = CutoffTime]
    /\ pc' = [pc EXCEPT ![t] = "time_in"]
    /\ UNCHANGED <<config, now, fsVars, file_registry, running, last_heartbeat, cleanup_thread,
                   main_pc, sup_pc, sup_timeout, histVars>>

\* lines 211-227, inside the lock
WorkerTimeIn(t) ==
    /\ pc[t] = "time_in"
    /\ ApplyPolicy(t, "time", CurDir(t), frame[t].cutoff_time, TimeResult(t, CurDir(t)))
    /\ state_lock' = NoThread
    /\ pc' = [pc EXCEPT ![t] = "count"]
    /\ frame' = [frame EXCEPT ![t].trail = Append(@, Call("time", CurDir(t)))]
    /\ UNCHANGED <<config, now, locked, dir_status, state_writable, state_file, running,
                   last_heartbeat, cleanup_thread, main_pc, sup_pc, sup_timeout,
                   scanned, origin, entered, stop_log>>

\* line 311, _cleanup_by_count up to line 237: under the cap it returns 0
WorkerCount(t) ==
    /\ pc[t] = "count"
    /\ state_lock = NoThread
    /\ IF ~CountResult(CurDir(t)).assigned
       THEN /\ ApplyPolicy(t, "count", CurDir(t), 0, CountResult(CurDir(t)))
            /\ state_lock' = NoThread
            /\ pc' = [pc EXCEPT ![t] = "size"]
            /\ frame' = [frame EXCEPT ![t].trail = Append(@, Call("count", CurDir(t)))]
       ELSE /\ state_lock' = t
            /\ pc' = [pc EXCEPT ![t] = "count_in"]
            /\ UNCHANGED <<file_registry, disk, last, frame>>
    /\ UNCHANGED <<config, now, locked, dir_status, state_writable, state_file, running,
                   last_heartbeat, cleanup_thread, main_pc, sup_pc, sup_timeout,
                   scanned, origin, entered, stop_log>>

\* lines 239-260, inside the lock
WorkerCountIn(t) ==
    /\ pc[t] = "count_in"
    /\ ApplyPolicy(t, "count", CurDir(t), 0, CountResult(CurDir(t)))
    /\ state_lock' = NoThread
    /\ pc' = [pc EXCEPT ![t] = "size"]
    /\ frame' = [frame EXCEPT ![t].trail = Append(@, Call("count", CurDir(t)))]
    /\ UNCHANGED <<config, now, locked, dir_status, state_writable, state_file, running,
                   last_heartbeat, cleanup_thread, main_pc, sup_pc, sup_timeout,
                   scanned, origin, entered, stop_log>>

\* the loop of lines 308-312 with _save_state inside it: a save after every directory
AfterDirectorySavesEach(t) ==
    /\ pc' = [pc EXCEPT ![t] = "snap"]
    /\ frame' = [frame EXCEPT ![t].dir_idx = 0,
                              ![t].trail = Append(@, Call("size", CurDir(t)))]

\* lines 308 and 319: the next directory, or _save_state after the last one
AfterDirectory(t) ==
    IF frame[t].dir_idx < Len(config.directories)
    THEN /\ pc' = [pc EXCEPT ![t] = "walk"]
         /\ frame' = [frame EXCEPT ![t].dir_idx = @ + 1,
                                   ![t].trail = Append(@, Call("size", CurDir(t)))]
    ELSE /\ pc' = [pc EXCEPT ![t] = "snap"]
         /\ frame' = [frame EXCEPT ![t].dir_idx = 0,
                                   ![t].trail = Append(@, Call("size", CurDir(t)))]

\* line 312, _cleanup_by_size up to line 270: under the cap it returns 0
WorkerSize(t) ==
    /\ pc[t] = "size"
    /\ state_lock = NoThread
    /\ IF ~SizeResult(CurDir(t)).assigned
       THEN /\ ApplyPolicy(t, "size", CurDir(t), 0, SizeResult(CurDir(t)))
            /\ state_lock' = NoThread
            /\ AfterDirectory(t)
       ELSE /\ state_lock' = t
            /\ pc' = [pc EXCEPT ![t] = "size_in"]
            /\ UNCHANGED <<file_registry, disk, last, frame>>
    /\ UNCHANGED <<config, now, locked, dir_status, state_writable, state_file, running,
                   last_heartbeat, cleanup_thread, main_pc, sup_pc, sup_timeout,
                   scanned, origin, entered, stop_log>>

\* lines 272-299, inside the lock
WorkerSizeIn(t) ==
    /\ pc[t] = "size_in"
    /\ ApplyPolicy(t, "size", CurDir(t), 0, SizeResult(CurDir(t)))
    /\ state_lock' = NoThread
    /\ AfterDirectory(t)
    /\ UNCHANGED <<config, now, locked, dir_status, state_writable, state_file, running,
                   last_heartbeat, cleanup_thread, main_pc, sup_pc, sup_timeout,
                   scanned, origin, entered, stop_log>>

\* line 319, _save_state lines 331-342
WorkerSnap(t) ==
    /\ pc[t] = "snap"
    /\ state_lock = NoThread
    /\ frame' = [frame EXCEPT ![t].state_data = Serialize(file_registry)]
    /\ pc' = [pc EXCEPT ![t] = "write"]
    /\ UNCHANGED <<config, now, fsVars, sharedVars, main_pc, sup_pc, sup_timeout, histVars>>

\* line 319, _save_state lines 344-347
WorkerWrite(t) ==
    /\ pc[t] = "write"
    /\ WriteState(t)
    /\ frame' = [frame EXCEPT ![t].state_data = EmptyDict,
                              ![t].trail = Append(@, Call("save", ""))]
    /\ pc' = [pc EXCEPT ![t] = "beat"]
    /\ UNCHANGED <<config, now, disk, locked, dir_status, state_writable, sharedVars,
                   main_pc, sup_pc, sup_timeout, histVars>>

\* lines 321-322
WorkerBeat(t) ==
    /\ pc[t] = "beat"
    /\ last_heartbeat' = now
    /\ pc' = [pc EXCEPT ![t] = "sleep"]
    /\ frame' = [frame EXCEPT ![t].sleep_i = 0, ![t].trail = Append(@, Call("beat", ""))]
    /\ UNCHANGED <<config, now, fsVars, file_registry, running, state_lock, cleanup_thread,
                   main_pc, sup_pc, sup_timeout, histVars>>

\* lines 396-399: one round of the interruptible sleep
WorkerSleep(t) ==
    /\ pc[t] = "sleep"
    /\ IF frame[t].sleep_i < config.scan_interval /\ running
       THEN /\ frame' = [frame EXCEPT ![t].sleep_i = @ + 1]
            /\ pc' = pc
       ELSE /\ frame' = [frame EXCEPT ![t].sleep_i = 0, ![t].cpu = NoSample]
            /\ pc' = [pc EXCEPT ![t] = "loop"]
    /\ UNCHANGED <<config, now, fsVars, sharedVars, main_pc, sup_pc, sup_timeout, histVars>>

\* the loop without its `except`: an Exception raised inside a policy ends the thread
WorkerErrorExits(t) ==
    /\ pc[t] \in {"time_in", "count_in", "size_in"}
    /\ state_lock' = NoThread
    /\ pc' = [pc EXCEPT ![t] = "exited"]
    /\ frame' = [frame EXCEPT ![t].dir_idx = 0, ![t].trail = <<>>]
    /\ UNCHANGED <<config, now, fsVars, file_registry, running, last_heartbeat, cleanup_thread,
                   main_pc, sup_pc, sup_timeout, histVars>>

\* lines 400-402: an Exception raised inside a policy is caught by the loop;
\* the `with` of the policy releases the lock
WorkerError(t) ==
    /\ pc[t] \in {"time_in", "count_in", "size_in"}
    /\ state_lock' = NoThread
    /\ pc' = [pc EXCEPT ![t] = "backoff"]
    /\ frame' = [frame EXCEPT ![t].dir_idx = 0, ![t].trail = <<>>]
    /\ UNCHANGED <<config, now, fsVars, file_registry, running, last_heartbeat, cleanup_thread,
                   main_pc, sup_pc, sup_timeout, histVars>>

\* line 402: time.sleep(60), then the loop again
WorkerBackoff(t) ==
    /\ pc[t] = "backoff"
    /\ pc' = [pc EXCEPT ![t] = "loop"]
    /\ frame' = [frame EXCEPT ![t].cpu = NoSample]
    /\ UNCHANGED <<config, now, fsVars, sharedVars, main_pc, sup_pc, sup_timeout, histVars>>

\* the thread dies: a BaseException that `except Exception` does not catch
WorkerCrash(t) ==
    /\ IsAlive(t)
    /\ pc' = [pc EXCEPT ![t] = "crashed"]
    /\ frame' = [frame EXCEPT ![t] = NoFrame]
    /\ state_lock' = IF state_lock = t THEN NoThread ELSE state_lock
    /\ UNCHANGED <<config, now, fsVars, file_registry, running, last_heartbeat, cleanup_thread,
                   main_pc, sup_pc, sup_timeout, histVars>>

(***************************************************************************)
(* The heartbeat thread: _heartbeat_monitor (lines 349-372) with           *)
(* _stop_cleanup_thread (lines 380-388).                                   *)
(***************************************************************************)
\* line 352: while self.running
SupCheck ==
    /\ sup_pc = "check"
    /\ sup_pc' = IF running THEN "read" ELSE "exited"
    /\ UNCHANGED <<config, now, fsVars, sharedVars, main_pc, sup_timeout, pc, frame, histVars>>

\* lines 354-356
SupRead ==
    /\ sup_pc = "read"
    /\ sup_timeout' = (now - last_heartbeat > config.heartbeat_timeout)
    /\ sup_pc' = "decide"
    /\ UNCHANGED <<config, now, fsVars, sharedVars, main_pc, pc, frame, histVars>>

\* the tick with the staleness test ahead of the liveness test
SupDecideTimeoutFirst ==
    /\ sup_pc = "decide"
    /\ IF sup_timeout
       THEN /\ sup_pc' = "stop"
            /\ UNCHANGED <<cleanup_thread, pc, origin>>
       ELSE IF ~IsAlive(cleanup_thread)
            THEN /\ StartCleanupThread("crash")
                 /\ sup_pc' = "sleep"
            ELSE /\ sup_pc' = "sleep"
                 /\ UNCHANGED <<cleanup_thread, pc, origin>>
    /\ UNCHANGED <<config, now, fsVars, file_registry, running, last_heartbeat, state_lock,
                   main_pc, sup_timeout, frame, last, scanned, entered, stop_log>>

\* lines 358-367: the three branches of a tick
SupDecide ==
    /\ sup_pc = "decide"
    /\ IF ~IsAlive(cleanup_thread)
       THEN /\ StartCleanupThread("crash")
            /\ sup_pc' = "sleep"
       ELSE /\ sup_pc' = IF sup_timeout THEN "stop" ELSE "sleep"
            /\ UNCHANGED <<cleanup_thread, pc, origin>>
    /\ UNCHANGED <<config, now, fsVars, file_registry, running, last_heartbeat, state_lock,
                   main_pc, sup_timeout, frame, last, scanned, entered, stop_log>>

\* _stop_cleanup_thread with a stop signal that leaves self.running alone
SupStopLeavesRunning ==
    /\ sup_pc = "stop"
    /\ running' = running
    /\ sup_pc' = IF IsAlive(cleanup_thread) THEN "join" ELSE "start"
    /\ UNCHANGED <<config, now, fsVars, file_registry, last_heartbeat, state_lock,
                   cleanup_thread, main_pc, sup_timeout, pc, frame, histVars>>

\* line 364, _stop_cleanup_thread lines 382-385
SupStop ==
    /\ sup_pc = "stop"
    /\ IF IsAlive(cleanup_thread)
       THEN /\ running' = FALSE
            /\ sup_pc' = "join"
       ELSE /\ running' = running
            /\ sup_pc' = "start"
    /\ UNCHANGED <<config, now, fsVars, file_registry, last_heartbeat, state_lock,
                   cleanup_thread, main_pc, sup_timeout, pc, frame, histVars>>

\* lines 386-388: join(timeout=10) ends when the thread has ended or the wait is over
SupJoin ==
    /\ sup_pc = "join"
    /\ sup_pc' = "start"
    /\ UNCHANGED <<config, now, fsVars, sharedVars, main_pc, sup_timeout, pc, frame, histVars>>

\* line 365
SupStart ==
    /\ sup_pc = "start"
    /\ StartCleanupThread("stall")
    /\ sup_pc' = "sleep"
    /\ UNCHANGED <<config, now, fsVars, file_registry, running, last_heartbeat, state_lock,
                   main_pc, sup_timeout, frame, last, scanned, entered, stop_log>>

\* line 369
SupSleep ==
    /\ sup_pc = "sleep"
    /\ sup_pc' = "check"
    /\ sup_timeout' = FALSE
    /\ UNCHANGED <<config, now, fsVars, sharedVars, main_pc, pc, frame, histVars>>

(***************************************************************************)
(* stop(), lines 412-421, on the main thread.                              *)
(***************************************************************************)
\* line 415
StopSignal ==
    /\ main_pc = "started"
    /\ running' = FALSE
    /\ stop_log' = Append(stop_log, "signal")
    /\ main_pc' = "stop_join_cleanup"
    /\ UNCHANGED <<config, now, fsVars, file_registry, last_heartbeat, state_lock,
                   cleanup_thread, sup_pc, sup_timeout, pc, frame, last, scanned, origin, entered>>

\* lines 416-417: join(timeout=10) ends when the thread has ended or the wait is over
StopJoinCleanup ==
    /\ main_pc = "stop_join_cleanup"
    /\ stop_log' = Append(stop_log, "join_cleanup")
    /\ main_pc' = "stop_join_heartbeat"
    /\ UNCHANGED <<config, now, fsVars, sharedVars, sup_pc, sup_timeout, pc, frame,
                   last, scanned, origin, entered>>

\* lines 418-419
StopJoinHeartbeat ==
    /\ main_pc = "stop_join_heartbeat"
    /\ stop_log' = Append(stop_log, "join_heartbeat")
    /\ main_pc' = "stop_snap"
    /\ UNCHANGED <<config, now, fsVars, sharedVars, sup_pc, sup_timeout, pc, frame,
                   last, scanned, origin, entered>>

\* line 420, _save_state lines 331-342
StopSnap ==
    /\ main_pc = "stop_snap"
    /\ state_lock = NoThread
    /\ frame' = [frame EXCEPT ![Main].state_data = Serialize(file_registry)]
    /\ main_pc' = "stop_write"
    /\ UNCHANGED <<config, now, fsVars, sharedVars, sup_pc, sup_timeout, pc, histVars>>

\* line 420, _save_state lines 344-347, and the return of stop()
StopWrite ==
    /\ main_pc = "stop_write"
    /\ WriteState(Main)
    /\ frame' = [frame EXCEPT ![Main].state_data = EmptyDict]
    /\ stop_log' = Append(stop_log, "save")
    /\ main_pc' = "stopped"
    /\ UNCHANGED <<config, now, disk, locked, dir_status, state_writable, sharedVars,
                   sup_pc, sup_timeout, pc, last, scanned, origin, entered>>

(***************************************************************************)
(* The clock.                                                              *)
(***************************************************************************)
Tick ==
    /\ now < StartTime + MaxTime
    /\ now' = now + 1
    /\ UNCHANGED <<config, fsVars, sharedVars, threadVars, histVars>>

(***************************************************************************)
(* Spec: the whole daemon on one filesystem.                               *)
(***************************************************************************)
\* _load_config, lines 122-139, in the model's units
DaemonConfig ==
    [directories |-> <<"d1">>, retention_seconds |-> 3, max_files_per_dir |-> 1,
     max_disk_size_bytes |-> 1, scan_interval |-> 1, heartbeat_timeout |-> 1,
     cpu_threshold |-> 80]

InitialDisk ==
    {FileInfo("d1/a", 2, 0), FileInfo("d1/b", 2, 1), FileInfo("d2/x", 1, 2)}

\* __init__, lines 59-68, before _load_initial_state
InitDaemon ==
    /\ file_registry = EmptyDict
    /\ running = TRUE
    /\ last_heartbeat = now
    /\ state_lock = NoThread
    /\ cleanup_thread = NoThread
    /\ main_pc = "load"
    /\ sup_pc = "unborn"
    /\ sup_timeout = FALSE
    /\ pc = [t \in Workers |-> "unborn"]
    /\ frame = [t \in Threads |-> NoFrame]
    /\ last = NoCall
    /\ scanned = [d \in DirSet |-> {}]
    /\ origin = [t \in Workers |-> "none"]
    /\ entered = {}
    /\ stop_log = <<>>

Init ==
    /\ config = DaemonConfig
    /\ now = StartTime
    /\ disk = InitialDisk
    /\ locked = {}
    /\ dir_status = [d \in DirSet |-> "ok"]
    /\ state_writable = TRUE
    /\ state_file = NoFile
    /\ InitDaemon

Construct == Load \/ InitWalk \/ InitStore \/ InitSnap \/ InitWrite

Start == StartRunning \/ StartCleanup \/ StartHeartbeat

Worker(t) ==
    \/ WorkerLoop(t) \/ WorkerGate(t) \/ WorkerWalk(t) \/ WorkerStore(t)
    \/ WorkerTime(t) \/ WorkerTimeIn(t) \/ WorkerCount(t) \/ WorkerCountIn(t)
    \/ WorkerSize(t) \/ WorkerSizeIn(t) \/ WorkerSnap(t) \/ WorkerWrite(t)
    \/ WorkerBeat(t) \/ WorkerSleep(t) \/ WorkerError(t) \/ WorkerBackoff(t)
    \/ WorkerCrash(t)

Supervisor == SupCheck \/ SupRead \/ SupDecide \/ SupStop \/ SupJoin \/ SupStart \/ SupSleep

Stop == StopSignal \/ StopJoinCleanup \/ StopJoinHeartbeat \/ StopSnap \/ StopWrite

Next ==
    \/ Construct
    \/ Start
    \/ \E t \in Workers : Worker(t)
    \/ Supervisor
    \/ Stop
    \/ Tick

Spec == Init /\ [][Next]_vars

(***************************************************************************)
(* SpecBoot: construction and the first cleanup thread, for every state    *)
(* file and directory status of a small set.  No heartbeat thread and no   *)
(* stop().                                                                 *)
(***************************************************************************)
BootConfig == [DaemonConfig EXCEPT !.directories = Directories]

\* a dict that lacks keys: fd['size'] raises KeyError
BadDict(p) == [path |-> p]

BootStateFiles ==
    {NoFile,
     CorruptFile,
     \* records of an earlier run: one of a file that still exists, one of a
     \* file that is gone
     JsonFile([d \in {"d1"} |-> <<ToDict(FileInfo("d1/a", 2, 0)), ToDict(FileInfo("d1/c", 1, 0))>>]),
     \* a well-formed entry and an entry with a schema mismatch
     JsonFile([d \in {"d1", "d2"} |->
                  IF d = "d1" THEN <<ToDict(FileInfo("d1/c", 1, 0))>> ELSE <<BadDict("d2/x")>>])}

InitBoot ==
    /\ config = BootConfig
    /\ now = StartTime
    /\ dir_status \in [DirSet -> {"ok", "missing", "error"}]
    \* a missing directory holds no files
    /\ disk = {f \in InitialDisk : \A d \in DirSet : f.path \in PathsOf(d) => dir_status[d] # "missing"}
    /\ locked \in {{}, {"d1/a"}}
    /\ state_writable \in BOOLEAN
    /\ state_file \in BootStateFiles
    /\ InitDaemon

NextBoot ==
    \/ Construct
    \/ StartRunning
    \/ StartCleanup
    \/ WorkerLoop(1) \/ WorkerGate(1) \/ WorkerWalk(1) \/ WorkerStore(1)
    \/ WorkerTime(1) \/ WorkerTimeIn(1) \/ WorkerCount(1) \/ WorkerCountIn(1)
    \/ WorkerSize(1) \/ WorkerSizeIn(1) \/ WorkerSnap(1) \/ WorkerWrite(1)
    \/ WorkerBeat(1) \/ WorkerSleep(1)
    \/ Tick

SpecBoot == InitBoot /\ [][NextBoot]_vars

(***************************************************************************)
(* SpecPolicy: _scan_directory and the three policies called directly on a *)
(* constructed daemon whose registry entry for d1 is any list of up to     *)
(* three records of existing files, the unlink of any of them failing.     *)
(* Each drawn entry gets one call of the count or the size policy, or      *)
(* scans and age passes in alternation (a cleanup pass run again).         *)
(***************************************************************************)
PolicyPaths == <<"d1/a", "d1/b", "d1/c">>

PolicyDir == "d1"

\* the lists of n records, the i-th of the i-th path
PolicyEntries(n) ==
    {[i \in 1..n |-> FileInfo(PolicyPaths[i], sm[i][1], sm[i][2])] :
        sm \in [1..n -> (1..MaxSize) \X (0..MaxMtime)]}

PolicyConfigs ==
    {[DaemonConfig EXCEPT !.retention_seconds = 1, !.max_files_per_dir = c,
                          !.max_disk_size_bytes = c + 1] : c \in 1..2}

InitPolicy ==
    /\ config \in PolicyConfigs
    /\ now = StartTime
    /\ \E n \in 0..Len(PolicyPaths) :
         \E entry \in PolicyEntries(n), status \in [1..n -> {"file", "locked"}] :
            /\ file_registry = [d \in {PolicyDir} |-> entry]
            /\ disk = Range(entry)
            /\ locked = {entry[i].path : i \in {j \in 1..n : status[j] = "locked"}}
    /\ dir_status = [d \in DirSet |-> "ok"]
    /\ state_writable = TRUE
    /\ state_file = NoFile
    /\ running = TRUE
    /\ last_heartbeat = now
    /\ state_lock = NoThread
    /\ cleanup_thread = NoThread
    /\ main_pc = "constructed"
    /\ sup_pc = "unborn"
    /\ sup_timeout = FALSE
    /\ pc = [t \in Workers |-> "unborn"]
    /\ frame = [t \in Threads |-> NoFrame]
    /\ last = NoCall
    /\ scanned = [d \in DirSet |-> {}]
    /\ origin = [t \in Workers |-> "none"]
    /\ entered = {}
    /\ stop_log = <<>>

policyFrame == <<config, now, locked, dir_status, state_writable, state_file, running,
                 last_heartbeat, state_lock, cleanup_thread, threadVars, origin, entered,
                 stop_log>>

\* _scan_directory(PolicyDir)
PolicyScan ==
    /\ last.op \in {"none", "time"}
    /\ \E files \in WalkResults(PolicyDir) :
          /\ file_registry' = Put(file_registry, PolicyDir, files)
          /\ scanned' = [scanned EXCEPT ![PolicyDir] = @ \cup Range(files)]
          /\ last' = [NoCall EXCEPT !.op = "scan", !.dir = PolicyDir, !.by = Main,
                                    !.before = Get(file_registry, PolicyDir),
                                    !.assigned = TRUE]
    /\ UNCHANGED <<disk, policyFrame>>

\* _cleanup_by_time(PolicyDir)
PolicyTime ==
    /\ last.op \in {"none", "scan"}
    /\ ApplyPolicy(Main, "time", PolicyDir, CutoffTime,
                   CleanupByTime(Get(file_registry, PolicyDir), CutoffTime, disk, locked))
    /\ UNCHANGED <<scanned, policyFrame>>

\* _cleanup_by_count(PolicyDir)
PolicyCount ==
    /\ last.op = "none"
    /\ ApplyPolicy(Main, "count", PolicyDir, 0, CountResult(PolicyDir))
    /\ UNCHANGED <<scanned, policyFrame>>

\* _cleanup_by_size(PolicyDir)
PolicySize ==
    /\ last.op = "none"
    /\ ApplyPolicy(Main, "size", PolicyDir, 0, SizeResult(PolicyDir))
    /\ UNCHANGED <<scanned, policyFrame>>

NextPolicy == PolicyScan \/ PolicyTime \/ PolicyCount \/ PolicySize

SpecPolicy == InitPolicy /\ [][NextPolicy]_vars

(***************************************************************************)
(* SpecFair: Spec with the scheduling the threads get.  Every thread that  *)
(* can take a step eventually takes it, except that an unlink (a blocking  *)
(* filesystem call, made inside the registry lock by the three policies)   *)
(* may never return, and that errors and the clock owe no progress.        *)
(***************************************************************************)
WorkerRuns(t) ==
    \/ WorkerLoop(t) \/ WorkerGate(t) \/ WorkerWalk(t) \/ WorkerStore(t)
    \/ WorkerTime(t) \/ WorkerCount(t) \/ WorkerSize(t) \/ WorkerSnap(t)
    \/ WorkerWrite(t) \/ WorkerBeat(t) \/ WorkerSleep(t) \/ WorkerBackoff(t)

SpecFair ==
    /\ Init
    /\ [][Next]_vars
    /\ WF_vars(Construct \/ Start \/ Stop)
    /\ WF_vars(Supervisor)
    /\ \A t \in Workers : WF_vars(WorkerRuns(t))

(***************************************************************************)
(* SpecRoundTrip: a process holding an arbitrary registry saves it         *)
(* (_save_state), and a new process reads the file back (__init__ line 62  *)
(* and the load of lines 143-160, before the rescan of lines 163-164).     *)
(***************************************************************************)
RoundTripRecords(d) ==
    {FileInfo(p, s, m) : p \in IF d = "d1" THEN {"d1/a", "d1/b"} ELSE {"d2/x"},
                         s \in {0, MaxSize}, m \in {0, MaxMtime}}

\* the lists of at most two records of d
RoundTripEntries(d) ==
    {<<>>} \cup {<<f>> : f \in RoundTripRecords(d)}
           \cup {<<f, g>> : f \in RoundTripRecords(d), g \in RoundTripRecords(d)}

\* the registries: a directory has an entry (possibly empty) or none
RoundTripRegistries ==
    UNION {[D -> UNION {RoundTripEntries(d) : d \in D}] : D \in SUBSET DirSet}

InitRoundTrip ==
    /\ config = BootConfig
    /\ now = StartTime
    /\ disk = {}
    /\ locked = {}
    /\ dir_status = [d \in DirSet |-> "ok"]
    /\ state_writable \in BOOLEAN
    /\ state_file \in {NoFile, CorruptFile}
    /\ file_registry \in {reg \in RoundTripRegistries :
                             \A d \in DOMAIN reg : reg[d] \in RoundTripEntries(d)}
    /\ running = TRUE
    /\ last_heartbeat = now
    /\ state_lock = NoThread
    /\ cleanup_thread = NoThread
    /\ main_pc = "init_snap"
    /\ sup_pc = "unborn"
    /\ sup_timeout = FALSE
    /\ pc = [t \in Workers |-> "unborn"]
    /\ frame = [t \in Threads |-> NoFrame]
    /\ last = NoCall
    /\ scanned = [d \in DirSet |-> {}]
    /\ origin = [t \in Workers |-> "none"]
    /\ entered = {}
    /\ stop_log = <<>>

\* a new process: file_registry = {} (line 62), then the load of lines 143-160
Restart ==
    /\ main_pc = "constructed"
    /\ IF state_file.kind = "json"
       THEN \E order \in Orderings(DOMAIN state_file.data) :
                file_registry' = LoadEntries(EmptyDict, state_file.data, order)
       ELSE file_registry' = EmptyDict
    /\ main_pc' = "init_walk"
    /\ frame' = [frame EXCEPT ![Main].dir_idx = 1]
    /\ UNCHANGED <<config, now, fsVars, running, last_heartbeat, state_lock, cleanup_thread,
                   sup_pc, sup_timeout, pc, histVars>>

NextRoundTrip == InitSnap \/ InitWrite \/ Restart

SpecRoundTrip == InitRoundTrip /\ [][NextRoundTrip]_vars

(***************************************************************************)
(* Helpers of the properties.                                              *)
(***************************************************************************)
Occurrences(x, s) == Cardinality({i \in 1..Len(s) : s[i] = x})

\* s and t hold the same records, each as often
SameBag(s, t) ==
    /\ Len(s) = Len(t)
    /\ \A x \in Range(s) \cup Range(t) : Occurrences(x, s) = Occurrences(x, t)

AscendingMtime(s) == \A i, j \in 1..Len(s) : i < j => s[i].mtime <= s[j].mtime

Policies == {"time", "count", "size"}

\* the registry entry the latest call left
EntryAfter == Get(file_registry, last.dir)

\* the records of to_remove whose unlink raised
FailedUnlinks == {last.to_remove[i] : i \in {j \in 1..Len(last.to_remove) :
                                                last.to_remove[j].path \notin last.deleted}}

(***************************************************************************)
(* C1.  Stated as the claim has it: a replacement cleanup thread that the  *)
(* heartbeat thread starts after stopping a stalled one enters the body of *)
(* its cleanup loop; it does not leave _cleanup_loop without a cycle       *)
(* unless stop() was called.  The code lets it leave at once.              *)
(***************************************************************************)
C1_StallReplacementRuns ==
    \A t \in Workers :
        (origin[t] = "stall" /\ pc[t] = "exited" /\ ~StopCalled) => t \in entered

(***************************************************************************)
(* C2.  Stated as the claim has it: every step in which _perform_cleanup   *)
(* returns normally, from the CPU gate (a skipped cycle) or from the end  *)
(* of a full cycle, leaves last_heartbeat at the current time.  The code   *)
(* returns from a skipped cycle without touching it.                       *)
(***************************************************************************)
C2_EveryCycleRefreshesHeartbeat ==
    [][\A t \in Workers :
          (pc[t] \in {"gate", "beat"} /\ pc'[t] = "sleep") => last_heartbeat' = now']_vars

(***************************************************************************)
(* C3.  Stated as the claim has it: after a policy call, every record that *)
(* was selected for deletion and whose unlink failed is still in the       *)
(* directory's registry entry.  The code drops it.                         *)
(***************************************************************************)
C3_FailedUnlinkStaysTracked ==
    last.op \in Policies => \A f \in FailedUnlinks : InSeq(f, EntryAfter)

(***************************************************************************)
(* C4.  At a tick of the heartbeat thread (the branch of line 358) that    *)
(* finds the cleanup thread not alive while stop() has not been called,    *)
(* the same step starts a new cleanup thread: self.cleanup_thread is a new *)
(* thread, it is alive, and self.running is True, so its loop will run.    *)
(***************************************************************************)
C4_DeadWorkerRestarted ==
    [][(sup_pc = "decide" /\ sup_pc' # "decide" /\ ~IsAlive(cleanup_thread) /\ ~StopCalled)
          => /\ cleanup_thread' # cleanup_thread
             /\ cleanup_thread' \in Workers
             /\ pc'[cleanup_thread'] = "loop"
             /\ running']_vars

\* a thread started by the heartbeat thread for a dead one has entered its loop
C4_Witness ==
    \E t \in Workers : origin[t] = "crash" /\ t \in entered /\ IsAlive(t) /\ ~StopCalled

(***************************************************************************)
(* C5.  Stated as the claim has it: every record a policy deletes a file   *)
(* for was produced by a scan of that directory in this process.  The code *)
(* keeps the restored entry of a directory whose scan returns early, and   *)
(* the policies delete for it.                                             *)
(***************************************************************************)
C5_PoliciesDeleteOnlyScanned ==
    last.op \in Policies =>
        \A i \in 1..Len(last.to_remove) :
            last.to_remove[i].path \in last.deleted => last.to_remove[i] \in scanned[last.dir]

(***************************************************************************)
(* C6.  After _cleanup_by_count on an entry of N records with cap C: if    *)
(* N > C the entry has exactly C records, the N - C records removed from   *)
(* it are ones with the smallest mtime (none newer than a record kept);    *)
(* if N <= C the entry is as before, nothing is unlinked and 0 returned.   *)
(***************************************************************************)
C6_CountCap ==
    last.op = "count" =>
        LET N == Len(last.before)
            C == config.max_files_per_dir
        IN  IF N > C
            THEN /\ Len(EntryAfter) = C
                 /\ Len(last.to_remove) = N - C
                 /\ SameBag(last.before, last.to_remove \o EntryAfter)
                 /\ \A r \in Range(last.to_remove), k \in Range(EntryAfter) : r.mtime <= k.mtime
            ELSE /\ EntryAfter = last.before
                 /\ last.to_remove = <<>>
                 /\ last.deleted = {}
                 /\ last.ret = 0

\* three records over a cap of one, the oldest not first in the list
C6_Witness ==
    /\ last.op = "count"
    /\ Len(last.before) = 3
    /\ config.max_files_per_dir = 1
    /\ last.before[1].mtime > last.before[3].mtime
    /\ last.before[2].mtime > last.before[3].mtime
    /\ last.ret = 2

(***************************************************************************)
(* C7.  After _cleanup_by_size on an entry of total size S with cap M: if  *)
(* S > M the total is at most M, the records removed followed by the       *)
(* records kept are the entry in mtime-ascending order (the removed are a  *)
(* prefix of the oldest-first ordering), and the prefix is the shortest    *)
(* one: with its last record kept the total would exceed M; if S <= M the  *)
(* entry is as before, nothing is unlinked and 0 returned.                 *)
(***************************************************************************)
C7_SizeCap ==
    last.op = "size" =>
        LET S == SumSize(last.before)
            M == config.max_disk_size_bytes
            removed == last.to_remove
        IN  IF S > M
            THEN /\ SumSize(EntryAfter) <= M
                 /\ SameBag(last.before, removed \o EntryAfter)
                 /\ AscendingMtime(removed \o EntryAfter)
                 /\ removed # <<>>
                 /\ SumSize(EntryAfter) + removed[Len(removed)].size > M
            ELSE /\ EntryAfter = last.before
                 /\ removed = <<>>
                 /\ last.deleted = {}
                 /\ last.ret = 0

\* two records go and one stays, the list not in mtime order before
C7_Witness ==
    /\ last.op = "size"
    /\ Len(last.before) = 3
    /\ Len(last.to_remove) = 2
    /\ Len(EntryAfter) = 1
    /\ ~AscendingMtime(last.before)
    /\ SumSize(EntryAfter) = config.max_disk_size_bytes

(***************************************************************************)
(* C8.  After _cleanup_by_time with cutoff now - R: a record older than    *)
(* the cutoff is in the entry only if its unlink failed; and the pass run  *)
(* again on the same clock and filesystem (the scan, or the entry as it is *)
(* when the scan returns early, then the age policy) removes no file.      *)
(***************************************************************************)
C8_AgePass ==
    last.op = "time" =>
        /\ \A f \in Range(EntryAfter) : f.mtime < last.cutoff_time => f \in FailedUnlinks
        /\ \A files \in WalkResults(last.dir) \cup {EntryAfter} :
              CleanupByTime(files, last.cutoff_time, disk, locked).ret = 0

\* a second pass (scan, age policy) after a pass that deleted a file: the
\* unlink of an old file fails again, a newer file is kept, nothing is removed
C8_Witness ==
    /\ last.op = "time"
    /\ last.ret = 0
    /\ FailedUnlinks # {}
    /\ Len(EntryAfter) = 1
    /\ Range(last.before) \subseteq scanned[last.dir]
    /\ \E f \in scanned[last.dir] : f \notin disk

SampledBusy(t) == frame[t].cpu.ok /\ frame[t].cpu.pct > config.cpu_threshold

C10_BusyCycleChangesNothing ==
    [][\A t \in Workers :
          /\ (pc[t] = "gate" /\ pc'[t] \in {"sleep", "walk"}) =>
                IF frame'[t].cpu.ok /\ frame'[t].cpu.pct > config.cpu_threshold
                THEN pc'[t] = "sleep" /\ UNCHANGED <<disk, file_registry, state_file>>
                ELSE pc'[t] = "walk"
          /\ (SampledBusy(t) /\ <<pc[t], frame[t]>> # <<pc'[t], frame'[t]>>) =>
                UNCHANGED <<disk, file_registry, state_file>>]_vars

\* a cleanup thread asleep after a cycle the gate skipped
C10_Witness ==
    \E t \in Workers : pc[t] = "sleep" /\ SampledBusy(t) /\ frame[t].sleep_i = config.scan_interval

Unlinks(t) ==
    /\ pc[t] \in {"time_in", "count_in", "size_in"}
    /\ pc'[t] \in {"count", "size", "walk", "snap"}
    /\ last'.to_remove # <<>>

C12_NoLockAcrossBlockingCall ==
    [][\A t \in Workers :
          /\ pc[t] \in {"gate", "walk", "write"} => state_lock # t
          /\ Unlinks(t) => state_lock # t]_vars

(***************************************************************************)
(* C13.  Stated as the claim has it: when _scan_directory(d) returns, in   *)
(* the constructor or in a cycle, the registry entry of d holds exactly    *)
(* the files under d, whatever it held before; for a directory that does   *)
(* not exist it is empty.  The code returns early, leaving the entry as it *)
(* was, when d does not exist and when the walk raises.                    *)
(***************************************************************************)
FilesUnder(d) == {f \in disk : f.path \in PathsOf(d)}

\* the step in which the constructor's _scan_directory returns
InitScanReturns ==
    /\ main_pc \in {"init_walk", "init_store"}
    /\ main_pc' = "init_snap" \/ frame'[Main].dir_idx # frame[Main].dir_idx

\* the step in which a cleanup thread's _scan_directory returns
ScanReturns(t) == pc[t] \in {"walk", "store"} /\ pc'[t] = "time"

C13_ScanReplacesEntry ==
    [][/\ InitScanReturns =>
             Range(Get(file_registry', CurDir(Main))) = FilesUnder(CurDir(Main))
       /\ \A t \in Workers :
             ScanReturns(t) => Range(Get(file_registry', CurDir(t))) = FilesUnder(CurDir(t))]_vars

(***************************************************************************)
(* C14.  Stated as the claim has it: if the load of the state file fails   *)
(* (no file, not JSON, or an entry with a dict that lacks a key, whether   *)
(* or not well-formed entries come before it), the registry holds no       *)
(* restored record when the initial rescan begins.  The code stores the    *)
(* entries one at a time, so those stored before the failing one stay.     *)
(***************************************************************************)
LoadFails ==
    \/ state_file.kind # "json"
    \/ \E d \in DOMAIN state_file.data :
          \E i \in 1..Len(state_file.data[d]) : ~WellFormed(state_file.data[d][i])

C14_FailedLoadStartsEmpty ==
    [][(main_pc = "load" /\ main_pc' = "init_walk" /\ LoadFails)
          => \A d \in DOMAIN file_registry' : file_registry'[d] = <<>>]_vars

(***************************************************************************)
(* C15.  The calls of one _perform_cleanup that is not skipped are, for    *)
(* each configured directory in turn, scan, age policy, count policy, size *)
(* policy, then one save of the registry, then the heartbeat refresh.  A   *)
(* step that writes the state file is the save that follows the last       *)
(* directory, a step that sets last_heartbeat follows that save, and a     *)
(* count or size policy reads the entry its predecessor left: the latest   *)
(* call on the registry is the predecessor, by the same thread, on the     *)
(* same directory.                                                         *)
(***************************************************************************)
CycleOps == <<"scan", "time", "count", "size">>

ExpectedTrail ==
    LET n == Len(config.directories)
    IN  [i \in 1..(4 * n + 2) |->
            IF i <= 4 * n
            THEN Call(CycleOps[((i - 1) % 4) + 1], config.directories[((i - 1) \div 4) + 1])
            ELSE IF i = 4 * n + 1 THEN Call("save", "") ELSE Call("beat", "")]

IsPrefix(s, t) == Len(s) <= Len(t) /\ \A i \in 1..Len(s) : s[i] = t[i]

Predecessor(op) == IF op = "time" THEN "scan" ELSE IF op = "count" THEN "time" ELSE "count"

C15_CycleOrder ==
    [][\A t \in Workers :
          /\ IsPrefix(frame'[t].trail, ExpectedTrail)
          /\ (pc[t] = "write" /\ pc'[t] # "write" /\ pc'[t] # "crashed") =>
                /\ frame[t].trail = Take(ExpectedTrail, 4 * Len(config.directories))
                /\ state_writable => state_file' = JsonFile(Serialize(file_registry))
          /\ (pc[t] = "beat" /\ pc'[t] = "sleep") =>
                /\ frame'[t].trail = ExpectedTrail
                /\ last_heartbeat' = now
          /\ (last' # last /\ last'.by = t /\ last'.op \in {"count", "size"}) =>
                /\ last.by = t /\ last.dir = last'.dir /\ last.op = Predecessor(last'.op)
                /\ last'.before = Get(file_registry, last'.dir)
          /\ (last' # last /\ last'.by = t /\ last'.op = "time" /\ dir_status[last'.dir] = "ok") =>
                /\ last.by = t /\ last.dir = last'.dir /\ last.op = "scan"]_vars

\* a completed cycle over two directories that deleted a file
C15_Witness ==
    /\ Len(config.directories) = 2
    /\ pc[1] = "sleep"
    /\ frame[1].trail = ExpectedTrail
    /\ state_file = JsonFile(Serialize(file_registry))
    /\ disk # InitialDisk

(***************************************************************************)
(* C16.  Stated as the claim has it: the count policy's victims depend     *)
(* only on the set of tracked records.  After a call of _cleanup_by_count, *)
(* the same call on any reordering of the entry it read removes the same   *)
(* records and keeps the same records.  The code sorts by mtime alone with *)
(* a stable sort, so among records of equal mtime the order of the entry   *)
(* (the order of the directory walk) decides.                              *)
(***************************************************************************)
C16_CountVictimsIgnoreOrder ==
    last.op = "count" =>
        \A other \in Orderings(Range(last.before)) :
            LET r == CleanupByCount(other, config.max_files_per_dir, disk, locked)
            IN  /\ Range(r.to_remove) = Range(last.to_remove)
                /\ Range(r.entry) = Range(EntryAfter)

(***************************************************************************)
(* C17.  A cleanup thread returns from _cleanup_loop only at the test of   *)
(* its `while`, with self.running False, which only a stop request sets    *)
(* (stop(), line 415, or _stop_cleanup_thread, line 385): an Exception in  *)
(* a cycle sends it to the backoff and from there to the test again.  With *)
(* self.running False a thread in its sleep leaves the sleep at its next   *)
(* polling step, and a thread at the test returns; once False,             *)
(* self.running stays False, so no further cycle starts.                   *)
(***************************************************************************)
C17_LoopExitsOnlyOnStop ==
    [][/\ \A t \in Workers :
             /\ (pc[t] # "exited" /\ pc'[t] = "exited") => (pc[t] = "loop" /\ ~running)
             /\ (pc[t] \in {"time_in", "count_in", "size_in"}
                   /\ pc'[t] \notin {pc[t], "count", "size", "walk", "snap", "crashed"})
                      => pc'[t] = "backoff"
             /\ (pc[t] = "backoff" /\ pc'[t] # "backoff") => pc'[t] \in {"loop", "crashed"}
             /\ (~running /\ pc[t] = "sleep" /\ <<pc[t], frame[t]>> # <<pc'[t], frame'[t]>>)
                      => pc'[t] \in {"loop", "crashed"}
             /\ (~running /\ pc[t] = "loop" /\ pc'[t] # "loop")
                      => pc'[t] \in {"exited", "crashed"}
       /\ (~running /\ main_pc \notin {"load", "init_walk", "init_store", "init_snap",
                                       "init_write", "constructed"}) => ~running']_vars

\* a thread that ran a full cycle, was in its loop when stop() was called, and returned
C17_Witness ==
    \E t \in Workers :
        /\ pc[t] = "exited"
        /\ t \in entered
        /\ frame[t].trail = ExpectedTrail
        /\ StopCalled

(***************************************************************************)
(* C18.  Stated as the claim has it: the heartbeat thread returns from     *)
(* _heartbeat_monitor only after stop() has been called, and a cleanup     *)
(* thread started to replace a stalled one does not return from its loop   *)
(* before stop() has been called.  The code stops the stalled thread by    *)
(* setting self.running to False, the flag both loops test.                *)
(***************************************************************************)
C18_SupervisorEndsOnlyOnStop ==
    /\ sup_pc = "exited" => StopCalled
    /\ \A t \in Workers : (origin[t] = "stall" /\ pc[t] = "exited") => StopCalled

(***************************************************************************)
(* C19.  Stated as the claim has it: once stop() has returned, no step     *)
(* deletes a file, changes the registry or writes the state file, and the  *)
(* state file is the registry as saved.  The joins of stop() give up after *)
(* their timeout, and a cleanup thread that is inside a cycle then goes on *)
(* with it: it tests self.running only between cycles.                     *)
(***************************************************************************)
C19_NothingMutatesAfterStop ==
    [][main_pc = "stopped" =>
          /\ UNCHANGED <<disk, file_registry, state_file>>
          /\ state_file = JsonFile(Serialize(file_registry))]_vars

(***************************************************************************)
(* C20.  At most one cleanup thread is inside a cycle (its scan, its       *)
(* policies or its save) at any instant.  The heartbeat thread starts a    *)
(* thread only when the current one is dead, or after it has set           *)
(* self.running to False to stop a stalled one; a thread started then      *)
(* finds self.running False at its loop test and never begins a cycle.     *)
(***************************************************************************)
CyclePcs == {"walk", "store", "time", "time_in", "count", "count_in", "size", "size_in",
             "snap", "write"}

C20_OneWorkerInCycle ==
    Cardinality({t \in Workers : pc[t] \in CyclePcs}) <= 1

\* a stalled thread still inside its cycle after its replacement was started
C20_Witness ==
    \E t, u \in Workers :
        /\ t # u
        /\ pc[t] \in CyclePcs
        /\ origin[u] = "stall"
        /\ cleanup_thread = u

====
